---- MODULE Spec2Model ----
(***************************************************************************)
(* The YOLO (PyTorch) notebook: model setup, detect_objects, show_objects  *)
(* and the main loop over the test directory.                              *)
(*                                                                         *)
(* Arithmetic is exact: a Python float that is not an integer is kept as a *)
(* fraction <<numerator, denominator>> in lowest terms with a positive     *)
(* denominator.  For the image sizes the model draws (sides in Dims) the   *)
(* IEEE-754 double evaluation of round(), int() and // in the notebook     *)
(* gives the same integers as the exact evaluation.                        *)
(*                                                                         *)
(* The Darknet network, non_max_suppression and matplotlib are libraries   *)
(* the notebook calls; the model keeps of them what the notebook's own     *)
(* code relies on: the network is a fixed function of its weights, its     *)
(* train/eval mode and its input; non_max_suppression yields None for an   *)
(* image where nothing passes the thresholds (the value show_objects       *)
(* guards against); random.sample raises ValueError when asked for more    *)
(* items than the population holds.                                        *)
(***************************************************************************)
EXTENDS Integers, Sequences, FiniteSets, TLC

VARIABLES
    pc,          \* position in the notebook
    cuda,        \* torch.cuda.is_available()
    weightsFile, \* contents of ~/yolov3.weights
    nfiles,      \* len(os.listdir(test_dir))
    model,       \* the global `model`
    i,           \* number of directory entries the for loop has taken
    image,       \* main loop: image
    letterbox,   \* detect_objects: imw, imh and the Pad tuple
    detections,  \* main loop: detections
    console,     \* the 'Found N objects' lines printed so far
    pad,         \* show_objects: pad_x, pad_y
    bbox_colors, \* show_objects: bbox_colors
    patches,     \* show_objects: rectangles added to ax
    shown,       \* number of plt.show() calls completed
    error,       \* the exception that ended the run, if any
    log,         \* history: the stages completed, in order
    ncalls,      \* history: number of detect_objects calls completed
    probe        \* history: the first detect_objects call, its image and result

vars == <<pc, cuda, weightsFile, nfiles, model, i, image, letterbox, detections,
          console, pad, bbox_colors, patches, shown, error, log, ncalls, probe>>

----------------------------------------------------------------------------
(* Bounds of the model *)

MaxDim == 5

MaxFiles == 2

(* Program constants *)

img_size == 416

PaletteSize == 20

Bands == 3

----------------------------------------------------------------------------
(* Exact arithmetic *)

Max(a, b) == IF a >= b THEN a ELSE b

Min(a, b) == IF a <= b THEN a ELSE b

Abs(a) == IF a >= 0 THEN a ELSE -a

RECURSIVE Gcd(_, _)
Gcd(a, b) == IF b = 0 THEN a ELSE Gcd(b, a % b)

\* n / d in lowest terms, d > 0
Frac(n, d) ==
    LET g == Gcd(Abs(n), d)
    IN  IF n = 0 THEN <<0, 1>> ELSE <<n \div g, d \div g>>

\* Python int(x / 2) for an integer x: truncation toward zero
IntHalf(x) == IF x >= 0 THEN x \div 2 ELSE -((-x) \div 2)

\* Python 3 round(n / d) for n >= 0, d > 0: to nearest, ties to even
Round(n, d) ==
    LET q == n \div d
        r == n % d
    IN  IF 2 * r > d THEN q + 1
        ELSE IF 2 * r < d THEN q
        ELSE IF q % 2 = 0 THEN q ELSE q + 1

\* Python f // 2 for a float f = fr[1] / fr[2] >= 0
FloorHalf(fr) == fr[1] \div (2 * fr[2])

----------------------------------------------------------------------------
(* Inputs: the images of the test directory and the networks the weights   *)
(* file can hold                                                           *)

Dims == 1 .. MaxDim

\* Image.open(img_path): img.size = (W, H)
Images == [W : Dims, H : Dims]

NoImage == [W |-> 0, H |-> 0]

\* one row of the tensor non_max_suppression returns, in network-input space
Det(x1, y1, x2, y2, conf, cls_conf, cls_pred) ==
    [x1 |-> x1, y1 |-> y1, x2 |-> x2, y2 |-> y2,
     conf |-> conf, cls_conf |-> cls_conf, cls_pred |-> cls_pred]

None == [isNone |-> TRUE, rows |-> <<>>]

Rows(r) == [isNone |-> FALSE, rows |-> r]

\* What detections[0] can be: None, or a tensor with one row per object.  The
\* last one holds more distinct classes than the palette has colors (the COCO
\* catalog of coco.names has 80 classes).
Outcomes ==
    << None,
       Rows(<<Det(208, 208, 312, 312, 95, 99, 0)>>),
       Rows(<<Det(104, 52, 208, 260, 90, 97, 0), Det(208, 208, 312, 312, 95, 99, 0)>>),
       Rows(<<Det(104, 52, 208, 260, 90, 97, 16), Det(208, 208, 312, 312, 95, 99, 0)>>),
       Rows([k \in 1 .. PaletteSize + 1 |->
                Det(k, 2 * k, k + 100, 2 * k + 50, 90, 97, k - 1)]) >>

NumNets == Len(Outcomes)

\* the pretrained weights downloaded to ~/yolov3.weights
Yolov3Weights == 0

\* model(image_tensor) followed by non_max_suppression(detections, 0.8, 0.4):
\* a fixed function of the weights, of the train/eval mode (batch
\* normalisation and the YOLO layers behave differently when training) and
\* of the image.
Net(weights, training, img) ==
    Outcomes[((weights + (IF training THEN 1 ELSE 0) + img.W + 2 * img.H) % NumNets) + 1]

----------------------------------------------------------------------------
(* Model setup *)

NotLoaded == [weights |-> -1, training |-> TRUE, device |-> "cpu"]

\* models.Darknet(model_config, img_size); models.load_darknet_weights(model, weights)
\* A freshly constructed torch.nn.Module is in training mode, on the CPU.
Darknet(w) == [weights |-> w, training |-> TRUE, device |-> "cpu"]

----------------------------------------------------------------------------
(* detect_objects *)

\* if torch.cuda.is_available(): model.cuda()   (image_tensor itself is left on
\* the CPU: Tensor is assigned and never used)
ModelCuda(m, available) == IF available THEN [m EXCEPT !.device = "cuda"] ELSE m

\* model.train() in place of model.eval()
ModelTrain(m) == [m EXCEPT !.training = TRUE]

\* model.eval()
ModelEval(m) == [m EXCEPT !.training = FALSE]

\* ratio = min(img_size/img.size[0], img_size/img.size[1]), as a fraction
Ratio(img) ==
    IF img_size * img.H <= img_size * img.W
    THEN <<img_size, img.W>> ELSE <<img_size, img.H>>

\* imw = round(img.size[0] * ratio)
Imw(img) == Round(img.W * Ratio(img)[1], Ratio(img)[2])

\* imh = round(img.size[1] * ratio)
Imh(img) == Round(img.H * Ratio(img)[1], Ratio(img)[2])

\* transforms.Pad((left, top, right, bottom), (128,128,128))
PadTuple(imw, imh) ==
    [left   |-> Max(IntHalf(imh - imw), 0),
     top    |-> Max(IntHalf(imw - imh), 0),
     right  |-> Max(IntHalf(imh - imw), 0),
     bottom |-> Max(IntHalf(imw - imh), 0)]

\* Resize((imh, imw)) then Pad: the size of the tensor given to the model
Letterbox(img) ==
    LET imw == Imw(img)
        imh == Imh(img)
        p   == PadTuple(imw, imh)
    IN  [imw |-> imw, imh |-> imh, left |-> p.left, top |-> p.top,
         width |-> imw + p.left + p.right, height |-> imh + p.top + p.bottom]

NoLetterbox ==
    [imw |-> 0, imh |-> 0, left |-> 0, top |-> 0, width |-> 0, height |-> 0]

\* the state of the model when the forward pass runs: after cuda() and eval()
Prologue(m, available) == ModelEval(ModelCuda(m, available))

\* the forward pass run before cuda() and eval() have been applied
DetectResultBeforeEval(m, available, img) == Net(m.weights, m.training, img)

\* with torch.no_grad(): detections = model(image_tensor); non_max_suppression;
\* return detections[0]
DetectResult(m, available, img) ==
    LET ready == Prologue(m, available)
    IN  Net(ready.weights, ready.training, img)

----------------------------------------------------------------------------
(* show_objects *)

Tab20bN == 20

\* cmap(x) for x = j / (PaletteSize - 1): the entry int(x * N) of the N-entry
\* colormap, the last entry for x = 1
Cmap(j) == Min((j * Tab20bN) \div (PaletteSize - 1), Tab20bN - 1)

\* colors = [cmap(i) for i in np.linspace(0, 1, 20)]
Colors == [k \in 1 .. PaletteSize |-> Cmap(k - 1)]

\* img = np.array(img); img.shape
Shape(img) == <<img.H, img.W, Bands>>

\* max(img.shape)
MaxShape(img) == Max(Max(Shape(img)[1], Shape(img)[2]), Shape(img)[3])

\* pad_x = max(img.shape[0] - img.shape[1], 0) * (img_size / max(img.shape))
PadX(img) == Frac(Max(Shape(img)[1] - Shape(img)[2], 0) * img_size, MaxShape(img))

\* pad_y = max(img.shape[1] - img.shape[0], 0) * (img_size / max(img.shape))
PadY(img) == Frac(Max(Shape(img)[2] - Shape(img)[1], 0) * img_size, MaxShape(img))

\* unpad_h = img_size - pad_y; unpad_w = img_size - pad_x
Unpad(p) == Frac(img_size * p[2] - p[1], p[2])

\* (d // unpad) * side: floor division in place of division
RescaleFloorDiv(d, unpad, side) == Frac(((d * unpad[2]) \div unpad[1]) * side, 1)

\* (d / unpad) * side, d an integer
Rescale(d, unpad, side) == Frac(d * unpad[2] * side, unpad[1])

RECURSIVE SortedSeq(_)
SortedSeq(S) ==
    IF S = {} THEN <<>>
    ELSE LET m == CHOOSE x \in S : \A y \in S : x <= y
         IN  <<m>> \o SortedSeq(S \ {m})

\* unique_labels = detections[:, -1].cpu().unique()
UniqueLabels(rows) == SortedSeq({rows[k].cls_pred : k \in 1 .. Len(rows)})

\* int(np.where(unique_labels == int(cls_pred))[0])
IndexOf(labels, c) == CHOOSE k \in 1 .. Len(labels) : labels[k] = c

\* random.sample(colors, n) for n <= len(colors): n entries of colors taken at
\* n different positions, in any order
Sample(n) ==
    { [k \in 1 .. n |-> Colors[pos[k]]] :
        pos \in { f \in [1 .. n -> 1 .. PaletteSize] :
                    \A a, b \in 1 .. n : a # b => f[a] # f[b] } }

\* the body of the loop over detections: the rectangle added for one row
Rectangle(img, row, px, py, labels, bc) ==
    [box_h |-> Rescale(row.y2 - row.y1, Unpad(py), Shape(img)[1]),
     box_w |-> Rescale(row.x2 - row.x1, Unpad(px), Shape(img)[2]),
     y1    |-> Rescale(row.y1 - FloorHalf(py), Unpad(py), Shape(img)[1]),
     x1    |-> Rescale(row.x1 - FloorHalf(px), Unpad(px), Shape(img)[2]),
     color |-> bc[IndexOf(labels, row.cls_pred)],
     cls   |-> row.cls_pred]

NoPad == [x |-> <<0, 1>>, y |-> <<0, 1>>]

----------------------------------------------------------------------------
(* The notebook *)

Init ==
    /\ pc = "setup"
    /\ cuda \in BOOLEAN
    /\ weightsFile = Yolov3Weights
    /\ nfiles \in 0 .. MaxFiles
    /\ model = NotLoaded
    /\ i = 0
    /\ image = NoImage
    /\ letterbox = NoLetterbox
    /\ detections = None
    /\ console = <<>>
    /\ pad = NoPad
    /\ bbox_colors = <<>>
    /\ patches = <<>>
    /\ shown = 0
    /\ error = "none"
    /\ log = <<>>
    /\ ncalls = 0
    /\ probe = [set |-> FALSE, img |-> NoImage, result |-> None]

\* the model setup cell
LoadModel ==
    /\ pc = "setup"
    /\ model' = Darknet(weightsFile)
    /\ log' = Append(log, <<"load", 0>>)
    /\ pc' = "for"
    /\ UNCHANGED <<cuda, weightsFile, nfiles, i, image, letterbox, detections,
                   console, pad, bbox_colors, patches, shown, error, ncalls, probe>>

\* a loop that takes the same directory entry again
ForNextSameEntry ==
    /\ pc = "for"
    /\ i < nfiles
    /\ i' = Max(i, 1)
    /\ image' = NoImage
    /\ letterbox' = NoLetterbox
    /\ detections' = None
    /\ pad' = NoPad
    /\ bbox_colors' = <<>>
    /\ patches' = <<>>
    /\ pc' = "open"
    /\ UNCHANGED <<cuda, weightsFile, nfiles, model, console, shown, error, log,
                   ncalls, probe>>

\* for image_file in os.listdir(test_dir): the next entry.  The locals of the
\* previous iteration's calls are gone.
ForNext ==
    /\ pc = "for"
    /\ i < nfiles
    /\ i' = i + 1
    /\ image' = NoImage
    /\ letterbox' = NoLetterbox
    /\ detections' = None
    /\ pad' = NoPad
    /\ bbox_colors' = <<>>
    /\ patches' = <<>>
    /\ pc' = "open"
    /\ UNCHANGED <<cuda, weightsFile, nfiles, model, console, shown, error, log,
                   ncalls, probe>>

\* img_path = os.path.join(test_dir, image_file); image = Image.open(img_path)
OpenImage ==
    /\ pc = "open"
    /\ \E img \in Images : image' = img
    /\ pc' = "detect"
    /\ UNCHANGED <<cuda, weightsFile, nfiles, model, i, letterbox, detections,
                   console, pad, bbox_colors, patches, shown, error, log, ncalls, probe>>

\* the for loop is exhausted
LoopEnd ==
    /\ pc = "for"
    /\ i >= nfiles
    /\ pc' = "done"
    /\ UNCHANGED <<cuda, weightsFile, nfiles, model, i, image, letterbox, detections,
                   console, pad, bbox_colors, patches, shown, error, log, ncalls, probe>>

\* detections = detect_objects(model, image)
DetectObjects ==
    /\ pc = "detect"
    /\ model' = Prologue(model, cuda)
    /\ letterbox' = Letterbox(image)
    /\ detections' = DetectResult(model, cuda, image)
    /\ ncalls' = ncalls + 1
    /\ probe' = IF probe.set THEN probe
                 ELSE [set |-> TRUE, img |-> image, result |-> detections']
    /\ log' = Append(log, <<"detect", i>>)
    /\ pc' = "print"
    /\ UNCHANGED <<cuda, weightsFile, nfiles, i, image, console, pad, bbox_colors,
                   patches, shown, error>>

\* print('Found {} objects in {}'.format(len(detections), image_file));
\* len(None) raises TypeError
PrintCount ==
    /\ pc = "print"
    /\ IF detections.isNone
       THEN /\ error' = "TypeError"
            /\ pc' = "aborted"
            /\ UNCHANGED <<console, log>>
       ELSE /\ console' = Append(console, [count |-> Len(detections.rows), file |-> i])
            /\ log' = Append(log, <<"print", i>>)
            /\ pc' = "show"
            /\ UNCHANGED error
    /\ UNCHANGED <<cuda, weightsFile, nfiles, model, i, image, letterbox, detections,
                   pad, bbox_colors, patches, shown, ncalls, probe>>

\* show_objects(image, detections)
ShowObjects ==
    /\ pc = "show"
    /\ pad' = [x |-> PadX(image), y |-> PadY(image)]
    /\ IF detections.isNone
       THEN /\ bbox_colors' = <<>>
            /\ patches' = <<>>
            /\ shown' = shown + 1
            /\ log' = Append(log, <<"show", i>>)
            /\ pc' = "for"
            /\ UNCHANGED error
       ELSE LET labels == UniqueLabels(detections.rows)
                n_cls_preds == Len(labels)
            IN  IF n_cls_preds > PaletteSize
                THEN /\ error' = "ValueError"
                     /\ pc' = "aborted"
                     /\ UNCHANGED <<bbox_colors, patches, shown, log>>
                ELSE /\ \E bc \in Sample(n_cls_preds) :
                          /\ bbox_colors' = bc
                          /\ patches' =
                               [k \in 1 .. Len(detections.rows) |->
                                  Rectangle(image, detections.rows[k],
                                            pad'.x, pad'.y, labels, bc)]
                     /\ shown' = shown + 1
                     /\ log' = Append(log, <<"show", i>>)
                     /\ pc' = "for"
                     /\ UNCHANGED error
    /\ UNCHANGED <<cuda, weightsFile, nfiles, model, i, image, letterbox, detections,
                   console, ncalls, probe>>

Next ==
    \/ LoadModel
    \/ ForNext
    \/ OpenImage
    \/ LoopEnd
    \/ DetectObjects
    \/ PrintCount
    \/ ShowObjects

Spec == Init /\ [][Next]_vars

----------------------------------------------------------------------------
(* Properties *)

\* detect_objects has returned for the current image
DetectDone == i >= 1 /\ pc \in {"print", "show", "for", "done", "aborted"}

\* show_objects has returned for the current image; its locals are still in view
ShowDone == i >= 1 /\ Len(log) > 0 /\ log[Len(log)] = <<"show", i>>

\* show_objects has raised for the current image
ShowRaised == pc = "aborted" /\ error = "ValueError"

\* the stage that is the j-th to complete in a run of the notebook
ExpectedEvent(j) ==
    IF j = 1 THEN <<"load", 0>>
    ELSE << <<"detect", "print", "show">>[((j - 2) % 3) + 1], ((j - 2) \div 3) + 1 >>

\* C1: the offsets show_objects subtracts (pad_x // 2, pad_y // 2) are the left
\* and top padding detect_objects added, for every image.
C1_RescaleInvertsPadding ==
    ShowDone =>
        /\ FloorHalf(pad.x) = letterbox.left
        /\ FloorHalf(pad.y) = letterbox.top

\* C2: the resized and padded image detect_objects gives to the model is
\* img_size x img_size, and both resized sides are at least 1.
C2_LetterboxIsSquare ==
    DetectDone =>
        /\ letterbox.width = img_size
        /\ letterbox.height = img_size
        /\ letterbox.imw >= 1
        /\ letterbox.imh >= 1

\* C3 as stated: for a square image both paddings are zero and every rectangle
\* has the network-space coordinates and size of its detection, unchanged.
C3_SquareUnchanged ==
    (ShowDone /\ image.W = image.H) =>
        /\ pad.x = <<0, 1>>
        /\ pad.y = <<0, 1>>
        /\ \A k \in 1 .. Len(patches) :
             LET row == detections.rows[k]
             IN  /\ patches[k].x1 = <<row.x1, 1>>
                 /\ patches[k].y1 = <<row.y1, 1>>
                 /\ patches[k].box_w = <<row.x2 - row.x1, 1>>
                 /\ patches[k].box_h = <<row.y2 - row.y1, 1>>

\* C3 amended: for a square image both paddings are zero and every rectangle
\* has the network-space coordinates and size of its detection multiplied by
\* side / img_size (one rectangle per detection).
C3_SquareScaled ==
    (ShowDone /\ image.W = image.H) =>
        /\ pad.x = <<0, 1>>
        /\ pad.y = <<0, 1>>
        /\ Len(patches) = Len(detections.rows)
        /\ \A k \in 1 .. Len(patches) :
             LET row == detections.rows[k]
             IN  /\ patches[k].x1 = Frac(row.x1 * image.W, img_size)
                 /\ patches[k].y1 = Frac(row.y1 * image.H, img_size)
                 /\ patches[k].box_w = Frac((row.x2 - row.x1) * image.W, img_size)
                 /\ patches[k].box_h = Frac((row.y2 - row.y1) * image.H, img_size)

\* a square image smaller than the network input has been drawn with a box
C3_Witness ==
    /\ ShowDone
    /\ image.W = image.H
    /\ image.W # img_size
    /\ Len(patches) >= 1

\* C4: for a non-square image a detection at the center of network-input
\* space (img_size / 2, img_size / 2) is drawn at the center of the image
\* (W / 2, H / 2).
C4_CenterMapsToCenter ==
    (ShowDone /\ image.W # image.H) =>
        \A k \in 1 .. Len(patches) :
            LET row == detections.rows[k]
            IN  (2 * row.x1 = img_size /\ 2 * row.y1 = img_size) =>
                    /\ patches[k].x1 = Frac(image.W, 2)
                    /\ patches[k].y1 = Frac(image.H, 2)

\* C5: once show_objects is over for an image, the plot holds as many
\* rectangles as the count line of that image reports.
C5_CountEqualsRectangles ==
    (ShowDone \/ ShowRaised) =>
        /\ Len(console) >= 1
        /\ console[Len(console)].file = i
        /\ Len(patches) = console[Len(console)].count

\* C6: once show_objects is over for an image, every detection is drawn, two
\* detections of one class in the same color and two detections of different
\* classes in different colors, however many classes the detections hold.
C6_ColorPerClass ==
    (ShowDone \/ ShowRaised) =>
        \A a, b \in 1 .. Len(detections.rows) :
            /\ a <= Len(patches)
            /\ b <= Len(patches)
            /\ (detections.rows[a].cls_pred = detections.rows[b].cls_pred)
                  <=> (patches[a].color = patches[b].color)

\* C7 as stated: every call of detect_objects leaves the model object as it was.
C7_ModelUnchanged == [][pc = "detect" => model' = model]_vars

\* C7 amended: every call of detect_objects leaves the weights as they were
\* and leaves the model in evaluation mode, on the GPU when CUDA is available
\* and where it was otherwise; every call but the first leaves the whole
\* model object as it was.
C7_ModelSettles ==
    [][pc = "detect" =>
          /\ model'.weights = model.weights
          /\ model'.training = FALSE
          /\ model'.device = (IF cuda THEN "cuda" ELSE model.device)
          /\ (ncalls >= 1 => model' = model)]_vars

\* detect_objects has been called a second time
C7_Witness == ncalls >= 2 /\ ~model.training

C9_LineAndDisplayPerFile ==
    pc \in {"done", "aborted"} =>
        /\ Len(console) = nfiles
        /\ shown = nfiles

\* C10: the stages complete in the order load, then detect, print, show for
\* the first file, then for the second, and so on: the model is loaded once,
\* before any detection, no stage of a file completes before show_objects of
\* the file before it, and no file is processed twice.
C10_Sequential ==
    /\ \A j \in 1 .. Len(log) : log[j] = ExpectedEvent(j)
    /\ pc # "setup" => Len(log) >= 1
    /\ pc = "done" => Len(log) = 1 + 3 * nfiles
    /\ Len(log) <= 1 + 3 * i

\* a directory of at least two images has been processed to the end
C10_Witness == pc = "done" /\ nfiles >= 2 /\ shown = nfiles

====
